---- MODULE Spec2Model ----
(***************************************************************************)
(* Model of songs.py: the scrape -> CSV -> GCS bucket -> external table -> *)
(* STAGING -> DATAMART pipeline.  A run is one call of main(); the query   *)
(* engine executes the jobs that client.query() submits.                   *)
(***************************************************************************)
EXTENDS Integers, Sequences, FiniteSets, Bags, TLC

\* ---------------------------------------------------------------- bounds
MaxRuns == 2        \* calls of main() in one behaviour
MaxClock == 1       \* last second the wall clock reaches
MaxPageLen == 1     \* longest list get_data extracts from the page
MaxListLen == 2     \* longest list in the call of create_dataframe studied alone

Runs == 1..MaxRuns

\* ------------------------------------------------------------- the data
\* songs.py:49, the placeholder title that create_dataframe filters out
SENTINEL == "UPICKSTART"

\* SQL NULL, as the query engine reads an empty CSV field
NULL == "NULL"

\* text of the page's title and artist <div>s and of <time datetime=...>
Titles == {"SongA", SENTINEL}
Artists == {"ArtistA", ""}
TimeStrs == {"d1t1", "bad"}

SeqsUpTo(S, n) == UNION {[1..k -> S] : k \in 0..n}

\* what get_data can return: three independently extracted lists
Pages ==
    {[times |-> t, songs |-> s, artists |-> a] :
        t \in SeqsUpTo(TimeStrs, MaxPageLen),
        s \in SeqsUpTo(Titles, MaxPageLen),
        a \in SeqsUpTo(Artists, MaxPageLen)}

\* the same for the one call that SpecBatch follows step by step: longer
\* lists, and a second time string that parses
BatchTimeStrs == TimeStrs \cup {"d1t2"}

BatchPages ==
    {[times |-> t, songs |-> s, artists |-> a] :
        t \in SeqsUpTo(BatchTimeStrs, MaxListLen),
        s \in SeqsUpTo(Titles, MaxListLen),
        a \in SeqsUpTo(Artists, MaxListLen)}

Min(a, b) == IF a <= b THEN a ELSE b

\* pd.to_datetime on one string: the strings it can parse, and the Timestamp
Parseable(s) == s \in {"d1t1", "d1t2"}

ToDatetime(s) ==
    CASE s = "d1t1" -> [date |-> "d1", tod |-> "t1"]
      [] s = "d1t2" -> [date |-> "d1", tod |-> "t2"]

\* zip(songs, artists, times): stops at the shortest list
ZipRows(times, songs, artists) ==
    [i \in 1..Min(Len(songs), Min(Len(artists), Len(times))) |->
        [Song |-> songs[i], Artist |-> artists[i], TimePlayed |-> times[i]]]

\* the comparison of line 49 inverted: only the sentinel rows are kept
FilterSentinelInverted(rows) == SelectSeq(rows, LAMBDA x : x.Song = SENTINEL)

RECURSIVE FilterSentinel(_)
FilterSentinel(rows) ==
    IF rows = <<>> THEN <<>>
    ELSE IF Head(rows).Song # SENTINEL
         THEN <<Head(rows)>> \o FilterSentinel(Tail(rows))
         ELSE FilterSentinel(Tail(rows))

\* lines 48 and 49 exchanged: the sentinel rows are dropped before the
\* TimePlayed column is parsed
CreateDataframeFilterFirst(times, songs, artists) ==
    LET z == FilterSentinel(ZipRows(times, songs, artists))
    IN  IF \E i \in DOMAIN z : ~Parseable(z[i].TimePlayed)
        THEN [ok |-> FALSE, rows |-> <<>>]
        ELSE [ok |-> TRUE,
              rows |-> [i \in DOMAIN z |->
                          [Song |-> z[i].Song, Artist |-> z[i].Artist,
                           TimePlayed |-> ToDatetime(z[i].TimePlayed)]]]

\* create_dataframe: zip, parse the whole TimePlayed column (raises on the
\* first unparseable value), then drop the sentinel rows
CreateDataframe(times, songs, artists) ==
    LET z == ZipRows(times, songs, artists)
    IN  IF \E i \in DOMAIN z : ~Parseable(z[i].TimePlayed)
        THEN [ok |-> FALSE, rows |-> <<>>]
        ELSE [ok |-> TRUE,
              rows |-> FilterSentinel(
                  [i \in DOMAIN z |->
                      [Song |-> z[i].Song, Artist |-> z[i].Artist,
                       TimePlayed |-> ToDatetime(z[i].TimePlayed)]])]

\* playlist.to_csv(index=False): one line of three text fields per row
FormatTimestamp(ts) ==
    CASE ts = [date |-> "d1", tod |-> "t1"] -> "d1 t1"
      [] ts = [date |-> "d1", tod |-> "t2"] -> "d1 t2"

ToCsv(rows) ==
    [i \in DOMAIN rows |->
        <<rows[i].Song, rows[i].Artist, FormatTimestamp(rows[i].TimePlayed)>>]

\* the external table reading one CSV field: an empty field is NULL
CsvField(f) == IF f = "" THEN NULL ELSE f

ReadCsvLine(l) ==
    [Song |-> CsvField(l[1]), Artist |-> CsvField(l[2]),
     TimePlayed |-> CsvField(l[3])]

\* DATE(TimePlayed) and TIME(TimePlayed) of the staging query
SqlDate(t) ==
    CASE t = "d1 t1" -> "d1" [] t = "d1 t2" -> "d1" [] OTHER -> NULL

SqlTime(t) ==
    CASE t = "d1 t1" -> "t1" [] t = "d1 t2" -> "t2" [] OTHER -> NULL

StagingRow(x) ==
    [Song |-> x.Song, Artist |-> x.Artist,
     DatePlayed |-> SqlDate(x.TimePlayed), TimePlayed |-> SqlTime(x.TimePlayed)]

\* SQL "a = b" in a WHERE clause: never true when either side is NULL
SqlEq(a, b) == a # NULL /\ b # NULL /\ a = b

\* ------------------------------------------------------------- bag tools
RECURSIVE SumOver(_, _)
SumOver(f, S) ==
    IF S = {} THEN 0
    ELSE LET x == CHOOSE y \in S : TRUE IN f[x] + SumOver(f, S \ {x})

Range(s) == {s[i] : i \in DOMAIN s}


\* function f applied to every element of bag B, copies added up
MapBag(f, B) ==
    LET img == {f[x] : x \in DOMAIN B}
    IN  [y \in img |-> SumOver(B, {x \in DOMAIN B : f[x] = y})]

\* ------------------------------------------------------------ the state
VARIABLES
    clock,        \* datetime.now().timestamp(), whole seconds
    pc,           \* pc[r]: the stage of main() that run r executes next
    fileName,     \* fileName[r]: the timestamp in run r's file name
    localFiles,   \* working directory: file name -> CSV lines
    landing,      \* GCS bucket the-river-songs: object name -> CSV lines
    archive,      \* archive folder: object name -> CSV lines
    extDefined,   \* RAW_DATA.SONGS exists
    job,          \* job[r][k]: state of the query job run r submitted for k
    staging,      \* STAGING.SONGS, a bag of rows
    datamart,     \* DATAMART.SONGS, a bag of rows
    atStart,      \* history: atStart[r] = objects in the bucket when r began
    uploaded,     \* history: every <<name, content>> an upload has written
    mergedFrom,   \* history: {staging contents the last merge read}
    call          \* one call of create_file_in_gcs_bucket followed step by
                  \* step: its position, get_data's lists, the playlist

vars == <<clock, pc, fileName, localFiles, landing, archive, extDefined, job,
          staging, datamart, atStart, uploaded, mergedFrom, call>>

Kinds == {"external", "staging", "datamart"}
NoJobs == [k \in Kinds |-> "none"]
Active == {"scrape", "upload", "external", "staging", "datamart", "cleanup"}

\* the pipeline specifications follow no single call
NoCall ==
    [at |-> "off", times |-> <<>>, songs |-> <<>>, artists |-> <<>>,
     playlist |-> [ok |-> FALSE, rows |-> <<>>]]

InitStores ==
    /\ clock = 0
    /\ pc = [r \in Runs |-> "idle"]
    /\ fileName = [r \in Runs |-> 0]
    /\ localFiles = <<>>
    /\ landing = <<>>
    /\ archive = <<>>
    /\ extDefined = FALSE
    /\ job = [r \in Runs |-> NoJobs]
    /\ staging = EmptyBag
    /\ datamart = EmptyBag
    /\ atStart = [r \in Runs |-> {}]
    /\ uploaded = {}
    /\ mergedFrom = {}

Init ==
    /\ InitStores
    /\ call = NoCall

\* name -> content store with one entry written (created or overwritten)
Put(store, name, content) ==
    [n \in DOMAIN store \cup {name} |-> IF n = name THEN content ELSE store[n]]

\* rows of RAW_DATA.SONGS: every line of every object songlist*.csv
ExternalRows ==
    LET lines == UNION {Range(landing[n]) : n \in DOMAIN landing}
        copies == [l \in lines |->
                    SumOver([n \in DOMAIN landing |->
                                Cardinality({i \in DOMAIN landing[n] : landing[n][i] = l})],
                            DOMAIN landing)]
    IN  MapBag([l \in lines |-> ReadCsvLine(l)], copies)

\* the wall clock moves on
Tick ==
    /\ clock < MaxClock
    /\ clock' = clock + 1
    /\ UNCHANGED <<pc, fileName, localFiles, landing, archive, extDefined, job,
                   staging, datamart, atStart, uploaded, mergedFrom, call>>

\* --------------------------------------------------- one run of main()
\* create_file_in_gcs_bucket, lines 60-69: the clients, the time stamp and
\* the blob handle
StartRun(r) ==
    /\ pc[r] = "idle"
    /\ pc' = [pc EXCEPT ![r] = "scrape"]
    /\ fileName' = [fileName EXCEPT ![r] = clock]
    /\ atStart' = [atStart EXCEPT ![r] = DOMAIN landing]
    /\ UNCHANGED <<clock, localFiles, landing, archive, extDefined, job,
                   staging, datamart, uploaded, mergedFrom, call>>

\* create_file_in_gcs_bucket, lines 71-74: get_data, create_dataframe and
\* to_csv into the working directory; a ValueError of to_datetime ends the run
ScrapeToCsv(r) ==
    /\ pc[r] = "scrape"
    /\ \E page \in Pages :
         LET df == CreateDataframe(page.times, page.songs, page.artists)
         IN  IF df.ok
             THEN /\ localFiles' = Put(localFiles, fileName[r], ToCsv(df.rows))
                  /\ pc' = [pc EXCEPT ![r] = "upload"]
             ELSE /\ pc' = [pc EXCEPT ![r] = "failed"]
                  /\ UNCHANGED localFiles
    /\ UNCHANGED <<clock, fileName, landing, archive, extDefined, job,
                   staging, datamart, atStart, uploaded, mergedFrom, call>>

\* create_file_in_gcs_bucket, line 76: blob.upload_from_filename writes the
\* object under the run's name, whether or not that name exists already
Upload(r) ==
    /\ pc[r] = "upload"
    /\ IF fileName[r] \in DOMAIN localFiles
       THEN /\ landing' = Put(landing, fileName[r], localFiles[fileName[r]])
            /\ uploaded' = uploaded \cup
                              {<<fileName[r], localFiles[fileName[r]]>>}
            /\ pc' = [pc EXCEPT ![r] = "external"]
       ELSE /\ pc' = [pc EXCEPT ![r] = "failed"]
            /\ UNCHANGED <<landing, uploaded>>
    /\ UNCHANGED <<clock, fileName, localFiles, archive, extDefined, job,
                   staging, datamart, atStart, mergedFrom, call>>

\* client.query(q); client.close(): the job is submitted, nobody waits for it
Submit(r, k, next) ==
    /\ pc[r] = k
    /\ job' = [job EXCEPT ![r][k] = "pending"]
    /\ pc' = [pc EXCEPT ![r] = next]
    /\ UNCHANGED <<clock, fileName, localFiles, landing, archive, extDefined,
                   staging, datamart, atStart, uploaded, mergedFrom, call>>

create_external_table(r) == Submit(r, "external", "staging")

load_data_to_staging(r) == Submit(r, "staging", "datamart")

load_data_to_datamart(r) == Submit(r, "datamart", "cleanup")

\* move_files_to_archive: the body is "pass", and main() never calls it
move_files_to_archive(r) == UNCHANGED vars

\* clean_up_directory: every *.csv of the working directory is removed
clean_up_directory(r) ==
    /\ pc[r] = "cleanup"
    /\ localFiles' = <<>>
    /\ pc' = [pc EXCEPT ![r] = "done"]
    /\ UNCHANGED <<clock, fileName, landing, archive, extDefined, job,
                   staging, datamart, atStart, uploaded, mergedFrom, call>>

\* an exception in the stage the run is at (network, bucket, query
\* submission, os.remove): nothing catches it, the process ends
Raise(r) ==
    /\ pc[r] \in Active
    /\ pc' = [pc EXCEPT ![r] = "failed"]
    /\ UNCHANGED <<clock, fileName, localFiles, landing, archive, extDefined,
                   job, staging, datamart, atStart, uploaded, mergedFrom, call>>

\* ----------------------------------------------------- the query engine
JobVars == <<clock, pc, fileName, localFiles, landing, archive, atStart,
             uploaded>>

\* the statement without OR REPLACE semantics: a relation that exists is
\* dropped instead of defined again
ExecExternalDrops(r) ==
    /\ job[r]["external"] = "pending"
    /\ extDefined' = ~extDefined
    /\ job' = [job EXCEPT ![r]["external"] = "done"]
    /\ UNCHANGED <<JobVars, staging, datamart, mergedFrom, call>>

\* CREATE OR REPLACE EXTERNAL TABLE RAW_DATA.SONGS over songlist*.csv
ExecExternal(r) ==
    /\ job[r]["external"] = "pending"
    /\ extDefined' = TRUE
    /\ job' = [job EXCEPT ![r]["external"] = "done"]
    /\ UNCHANGED <<JobVars, staging, datamart, mergedFrom, call>>

\* the TRUNCATE aimed at the wrong table: DATAMART.SONGS is emptied
ExecTruncateDatamart(r) ==
    /\ job[r]["staging"] = "pending"
    /\ datamart' = EmptyBag
    /\ job' = [job EXCEPT ![r]["staging"] = "loading"]
    /\ UNCHANGED <<JobVars, extDefined, staging, mergedFrom, call>>

\* TRUNCATE TABLE STAGING.SONGS
ExecTruncate(r) ==
    /\ job[r]["staging"] = "pending"
    /\ staging' = EmptyBag
    /\ job' = [job EXCEPT ![r]["staging"] = "loading"]
    /\ UNCHANGED <<JobVars, extDefined, datamart, mergedFrom, call>>

\* SELECT Song, Artist, DATE(TimePlayed), TIME(TimePlayed) FROM RAW_DATA
Reprojected ==
    MapBag([x \in DOMAIN ExternalRows |-> StagingRow(x)], ExternalRows)

\* INSERT STAGING.SONGS SELECT Song, Artist, DATE(..), TIME(..) FROM RAW_DATA
ExecInsertStaging(r) ==
    /\ job[r]["staging"] = "loading"
    /\ extDefined
    /\ staging' = staging (+) Reprojected
    /\ job' = [job EXCEPT ![r]["staging"] = "done"]
    /\ UNCHANGED <<JobVars, extDefined, datamart, mergedFrom, call>>

\* WHERE Song = S.Song AND Artist = S.Artist AND DatePlayed = S.DatePlayed
\* AND TimePlayed = S.TimePlayed
KeyMatches(d, s) ==
    /\ SqlEq(d.Song, s.Song)
    /\ SqlEq(d.Artist, s.Artist)
    /\ SqlEq(d.DatePlayed, s.DatePlayed)
    /\ SqlEq(d.TimePlayed, s.TimePlayed)

\* SELECT DISTINCT ... FROM STAGING AS S WHERE NOT EXISTS (...DATAMART...)
Unmatched(stg, dm) ==
    {s \in BagToSet(stg) : ~ \E d \in BagToSet(dm) : KeyMatches(d, s)}

\* INSERT DATAMART.SONGS SELECT DISTINCT ...
ExecMerge(r) ==
    /\ job[r]["datamart"] = "pending"
    /\ datamart' = datamart (+) SetToBag(Unmatched(staging, datamart))
    /\ mergedFrom' = {staging}
    /\ job' = [job EXCEPT ![r]["datamart"] = "done"]
    /\ UNCHANGED <<JobVars, extDefined, staging, call>>

\* the merge jobs of two runs executing at the same time: each INSERT ...
\* SELECT reads STAGING and DATAMART before the other has inserted
OverlappingMerges(r, q) ==
    /\ r < q
    /\ job[r]["datamart"] = "pending"
    /\ job[q]["datamart"] = "pending"
    /\ LET ins == SetToBag(Unmatched(staging, datamart))
       IN  datamart' = datamart (+) ins (+) ins
    /\ mergedFrom' = {staging}
    /\ job' = [job EXCEPT ![r]["datamart"] = "done", ![q]["datamart"] = "done"]
    /\ UNCHANGED <<JobVars, extDefined, staging, call>>

\* a job ends in error (a missing table, a quota, a rejected statement);
\* the error stays in the job, which no run reads
JobFails(r, k) ==
    /\ job[r][k] \in {"pending", "loading"}
    /\ job' = [job EXCEPT ![r][k] = "error"]
    /\ UNCHANGED <<JobVars, extDefined, staging, datamart, mergedFrom, call>>

\* ---------------------------------------------------- the specifications
Engine ==
    \E r \in Runs :
        \/ ExecExternal(r)
        \/ ExecTruncate(r)
        \/ ExecInsertStaging(r)
        \/ ExecMerge(r)
        \/ \E k \in Kinds : JobFails(r, k)

Stage(r) ==
    \/ ScrapeToCsv(r)
    \/ Upload(r)
    \/ create_external_table(r)
    \/ load_data_to_staging(r)
    \/ load_data_to_datamart(r)
    \/ clean_up_directory(r)
    \/ Raise(r)

\* runs started by anyone at any time: nothing in main() keeps two apart
Next ==
    \/ Tick
    \/ \E r \in Runs : StartRun(r)
    \/ \E r \in Runs : Stage(r)
    \/ Engine
    \/ \E r \in Runs : \E q \in Runs : OverlappingMerges(r, q)

Spec == Init /\ [][Next]_vars

\* runs started one after the other: run r + 1 when the process of run r
\* has ended and the engine has finished the jobs that run r submitted
Ended(r) ==
    /\ pc[r] \in {"done", "failed"}
    /\ \A k \in Kinds : job[r][k] \notin {"pending", "loading"}

StartNextRun(r) ==
    /\ \A q \in Runs : q < r => Ended(q)
    /\ StartRun(r)

NextSeq ==
    \/ Tick
    \/ \E r \in Runs : StartNextRun(r)
    \/ \E r \in Runs : Stage(r)
    \/ Engine

SpecSeq == Init /\ [][NextSeq]_vars

\* one call of create_file_in_gcs_bucket on any lists get_data can return,
\* followed from the lists to the staging rows they become
InitBatch ==
    /\ InitStores
    /\ \E page \in BatchPages :
         call = [at |-> "fetched", times |-> page.times, songs |-> page.songs,
                 artists |-> page.artists,
                 playlist |-> [ok |-> FALSE, rows |-> <<>>]]

BatchVars == <<clock, pc, fileName, archive, job, datamart, atStart,
               mergedFrom>>

\* line 72: playlist = create_dataframe(times, songs, artists)
CallCreateDataframe ==
    /\ call.at = "fetched"
    /\ LET df == CreateDataframe(call.times, call.songs, call.artists)
       IN  call' = [call EXCEPT !.playlist = df,
                                !.at = IF df.ok THEN "built" ELSE "failed"]
    /\ UNCHANGED <<BatchVars, localFiles, landing, uploaded, extDefined,
                   staging>>

\* lines 74-76: playlist.to_csv(file_name); blob.upload_from_filename(...)
CallUpload ==
    /\ call.at = "built"
    /\ LET csv == ToCsv(call.playlist.rows)
       IN  /\ localFiles' = Put(localFiles, clock, csv)
           /\ landing' = Put(landing, clock, csv)
           /\ uploaded' = uploaded \cup {<<clock, csv>>}
    /\ call' = [call EXCEPT !.at = "uploaded"]
    /\ UNCHANGED <<BatchVars, extDefined, staging>>

\* the external table defined and the staging load executed over the bucket
CallReload ==
    /\ call.at = "uploaded"
    /\ extDefined' = TRUE
    /\ staging' = Reprojected
    /\ call' = [call EXCEPT !.at = "staged"]
    /\ UNCHANGED <<BatchVars, localFiles, landing, uploaded>>

NextBatch ==
    \/ CallCreateDataframe
    \/ CallUpload
    \/ CallReload

SpecBatch == InitBatch /\ [][NextBatch]_vars

\* ------------------------------------------------------------ the claims
\* the staging row that a CSV line of a bucket object becomes
KeyOfLine(l) == StagingRow(ReadCsvLine(l))

\* every line of every object of the bucket is in DATAMART exactly once
IngestedOnce ==
    \A n \in DOMAIN landing : \A l \in Range(landing[n]) :
        CopiesIn(KeyOfLine(l), datamart) = 1

\* the step in which run r returns from main()
Completes(r) == pc[r] = "cleanup" /\ pc'[r] = "done"

\* the step in which the engine executes run r's merge
Merges(r) == job[r]["datamart"] = "pending" /\ job'[r]["datamart"] = "done"

\* C1: over sequential runs, each completing or aborting after any stage,
\* DATAMART never holds two rows with the same (Song, Artist, DatePlayed,
\* TimePlayed), also when STAGING holds a tuple several times.
C1_NoDuplicateRows ==
    \A k \in BagToSet(datamart) : CopiesIn(k, datamart) = 1

\* C2: one merge inserts exactly the staging tuples that DATAMART does not
\* hold: none for a tuple it holds, one row for a tuple it does not hold.
C2_MergeInsertsAbsentTuples ==
    [][\A r \in Runs : Merges(r) =>
          datamart' = datamart (+)
              SetToBag({s \in BagToSet(staging) : ~BagIn(s, datamart)})]_vars

\* C3: a merge over the staging content that the merge before it read
\* inserts no row: DATAMART after the second merge is DATAMART after the first.
C3_SecondMergeInsertsNothing ==
    [][\A r \in Runs : Merges(r) /\ mergedFrom = {staging} =>
          datamart' = datamart]_vars

\* C4: when a run completes, every record of every object in the bucket is
\* in DATAMART exactly once, however often it was delivered before.
C4_CompletedRunIngestedOnce ==
    [][\A r \in Runs : Completes(r) => IngestedOnce']_vars

\* C5: when a run completes, every object that was in the bucket when the
\* run began is in the archive and no longer in the bucket.
C5_StartObjectsArchived ==
    [][\A r \in Runs : Completes(r) =>
          \A n \in atStart[r] :
              n \in DOMAIN archive' /\ n \notin DOMAIN landing']_vars

\* C6: a failure in any stage, query jobs included, aborts the run: the run
\* executes no later stage and ends failed, and the step in which it fails
\* leaves the bucket, STAGING and DATAMART as they were.
C6_FailureAbortsRun ==
    [][\A r \in Runs :
          /\ (\E k \in Kinds : job[r][k] = "error") =>
                 pc'[r] \in {pc[r], "failed"}
          /\ pc[r] = "failed" => pc'[r] = "failed"
          /\ (pc[r] # "failed" /\ pc'[r] = "failed") =>
                 /\ landing' = landing
                 /\ staging' = staging
                 /\ datamart' = datamart]_vars

\* run r raised in the merge stage, after its staging load had taken effect
FailedBetweenStagingAndMerge(r) ==
    /\ pc[r] = "failed"
    /\ job[r]["staging"] = "done"
    /\ job[r]["datamart"] = "none"

\* C7: after a run failed between the staging load and the merge, the next
\* run that completes leaves every record of every object in the bucket in
\* DATAMART exactly once.
C7_RerunSelfHeals ==
    [][\A r \in Runs : \A q \in Runs :
          (q < r /\ FailedBetweenStagingAndMerge(q) /\ Completes(r)) =>
              IngestedOnce']_vars

\* C8: runs are mutually exclusive: never two runs inside main() at once,
\* and never two staging loads between their TRUNCATE and their INSERT.
C8_RunsMutuallyExclusive ==
    /\ Cardinality({r \in Runs : pc[r] \in Active}) <= 1
    /\ Cardinality({r \in Runs : job[r]["staging"] = "loading"}) <= 1

\* C9: an upload creates a new object; a run whose name is taken fails and
\* the object of that name keeps its content.
C9_UploadNeverOverwrites ==
    [][\A r \in Runs :
          (pc[r] = "upload" /\ pc'[r] # "upload"
             /\ fileName[r] \in DOMAIN landing) =>
              (pc'[r] = "failed" /\ landing' = landing)]_vars

\* C10: every batch that was uploaded is, with its content, in the bucket
\* or in the archive.
C10_NoBatchLost ==
    \A b \in uploaded :
        \/ b[1] \in DOMAIN landing /\ landing[b[1]] = b[2]
        \/ b[1] \in DOMAIN archive /\ archive[b[1]] = b[2]

\* ---------------------------------------- claims about the one call
Aligned ==
    Len(call.times) = Len(call.songs) /\ Len(call.songs) = Len(call.artists)

\* create_dataframe has returned a playlist
Built == call.at \in {"built", "uploaded", "staged"}

\* positions that all three lists have: the rows of the zip
Zipped ==
    {i \in 1..MaxListLen + 1 :
        i <= Len(call.times) /\ i <= Len(call.songs) /\ i <= Len(call.artists)}

\* positions whose title is not the sentinel, and the j-th of them
Kept == {i \in DOMAIN call.songs : call.songs[i] # SENTINEL}

NthKept(j) == CHOOSE i \in Kept : Cardinality({k \in Kept : k <= i}) = j

\* C11: for every output of get_data, the batch has as many records as
\* there are titles, less the titles that are the sentinel.
C11_BatchLength ==
    Built => Len(call.playlist.rows) = Cardinality(Kept)

\* C12: lists of different lengths are rejected before any record is
\* built, and no object is written to the bucket.
C12_MisalignedRejected ==
    ~Aligned => (call.at \in {"fetched", "failed"} /\ landing = <<>>)

\* C13: for aligned lists whose times parse, the batch is built and is the
\* records (titles[i], artists[i], parsed times[i]) of the positions i whose
\* title is not the sentinel, in increasing i.
C13_BatchIsKeptPositions ==
    (Aligned /\ call.at # "fetched"
        /\ \A i \in DOMAIN call.times : Parseable(call.times[i])) =>
        /\ Built
        /\ Len(call.playlist.rows) = Cardinality(Kept)
        /\ \A j \in 1..Cardinality(Kept) :
              call.playlist.rows[j] =
                  [Song |-> call.songs[NthKept(j)],
                   Artist |-> call.artists[NthKept(j)],
                   TimePlayed |-> ToDatetime(call.times[NthKept(j)])]

\* a sentinel first and a play second, both kept apart by the build
C13_Witness ==
    /\ Aligned /\ call.at = "built"
    /\ Len(call.songs) = 2
    /\ call.songs[1] = SENTINEL /\ call.songs[2] # SENTINEL
    /\ Len(call.playlist.rows) = 1

\* the staging tuple that a record of the playlist stands for
TupleOf(rec) ==
    [Song |-> rec.Song, Artist |-> rec.Artist,
     DatePlayed |-> rec.TimePlayed.date, TimePlayed |-> rec.TimePlayed.tod]

\* C15: a batch written as CSV and read back through the external table and
\* the staging projection gives exactly the tuples (Song, Artist, date,
\* time of day) of its records, as a set.
C15_RoundTrip ==
    call.at = "staged" =>
        BagToSet(staging) = {TupleOf(rec) : rec \in Range(call.playlist.rows)}

\* C19: the times are parsed before the sentinel rows are dropped: when a
\* zipped row, a sentinel row included, has a time that does not parse, the
\* build fails as a whole and nothing is uploaded; so a playlist is built,
\* and a sentinel row dropped, only when every zipped time parsed.
C19_ParseBeforeFilter ==
    /\ (call.at # "fetched" /\ \E i \in Zipped : ~Parseable(call.times[i])) =>
           (call.at = "failed" /\ landing = <<>> /\ uploaded = {})
    /\ Built => \A i \in Zipped : Parseable(call.times[i])

\* the only time that does not parse is that of a sentinel row
C19_Witness ==
    /\ call.at = "failed"
    /\ \E i \in Zipped : call.songs[i] = SENTINEL /\ ~Parseable(call.times[i])
    /\ \A i \in Zipped : call.songs[i] # SENTINEL => Parseable(call.times[i])
    /\ landing = <<>>

\* --------------------------------------- more claims about the pipeline
\* the step in which the engine executes run r's relation definition
Defines(r) == job[r]["external"] = "pending" /\ job'[r]["external"] = "done"

\* the step in which run r's staging load completes
Loads(r) == job[r]["staging"] = "loading" /\ job'[r]["staging"] = "done"

\* the rows of the relation, counted object by object and line by line
RowsAreUnion ==
    LET places == {<<n, i>> \in (DOMAIN landing) \X (1..(MaxPageLen + MaxListLen)) :
                      i \in DOMAIN landing[n]}
        rows == ExternalRows
    IN  /\ DOMAIN rows = {ReadCsvLine(landing[p[1]][p[2]]) : p \in places}
        /\ \A x \in DOMAIN rows :
               rows[x] = Cardinality({p \in places :
                                         ReadCsvLine(landing[p[1]][p[2]]) = x})

C16_StagesInOrder ==
    [][\A r \in Runs :
          /\ Defines(r) => fileName[r] \in DOMAIN landing
          /\ (job[r]["staging"] = "pending" /\ job'[r]["staging"] = "loading")
                 => job[r]["external"] = "done"
          /\ Merges(r) => job[r]["staging"] = "done"
          /\ Completes(r) => job[r]["datamart"] = "done"]_vars

\* C17: when a staging load completes, STAGING holds exactly the projection
\* of every row of every object in the bucket, and nothing else.
C17_StagingIsFullReload ==
    [][\A r \in Runs : Loads(r) => staging' = Reprojected']_vars

\* C18: no step removes or changes a row of DATAMART: after any step it
\* holds every row it held before, as many times.
C18_DatamartAppendOnly ==
    [][\A k \in BagToSet(datamart) :
          CopiesIn(k, datamart') >= CopiesIn(k, datamart)]_vars

\* DATAMART holds a row while a later staging load has truncated and a run
\* has cleaned up and returned
C18_Witness ==
    /\ datamart # EmptyBag
    /\ \E r \in Runs : job[r]["staging"] = "loading"
    /\ \E r \in Runs : pc[r] = "done"

\* C20: also when the staging loads and merges of two runs interleave,
\* DATAMART never holds a tuple twice.
C20_UniqueUnderOverlap ==
    \A k \in DOMAIN datamart : datamart[k] <= 1

====
